---- MODULE Spec2Model ----
(***************************************************************************)
(* Model of the WagoPLC OPC UA client (src/unnamed/part_000, the           *)
(* EventEmitter variant, and src/index.js, the logger variant).            *)
(*                                                                         *)
(* Every `await` of the source is a point where the event loop may run     *)
(* another handler, so every asynchronous method is split into one action  *)
(* per resumption: the call itself (up to its first await) and one action  *)
(* per answer of the session.                                              *)
(***************************************************************************)
EXTENDS Integers, Sequences, FiniteSets, Bags, TLC

(***************************************************************************)
(* Bounds of the model.                                                    *)
(***************************************************************************)
MaxBrowseCalls == 2     \* browse() invocations in one behaviour
MaxAddCalls == 2        \* addItemToMonitor() invocations made by the user
MaxPlcChanges == 1      \* value changes inside the controller
MaxStartCalls == 2      \* startMonitoringDataChanges() invocations
MaxNotifications == 2   \* change notifications the subscriptions deliver
MaxWriteCalls == 2      \* writeData() and switchBoolValue() invocations
MaxDepth == 4           \* frames of #browseNodeRecursiv followed in one call

(***************************************************************************)
(* The controller's address space.  R is a folder with the references A    *)
(* then B; A references C: a finite DAG.  F, L, D, S, V, N and X are       *)
(* variables outside that folder, one per category of value.  K and M      *)
(* reference each other: a reference cycle, reached from the root K only.  *)
(***************************************************************************)
Nodes == {"R", "A", "B", "C", "F", "L", "D", "S", "V", "N", "X", "K", "M"}
NoNode == "none"

Refs(n) ==
    CASE n = "R" -> <<"A", "B">>
      [] n = "A" -> <<"C">>
      [] n = "K" -> <<"M">>
      [] n = "M" -> <<"K">>
      [] OTHER   -> <<>>

\* The roots handed to browse().
BrowseRoots == {"R", "A"}
\* A root from which the traversal comes back to a node it has browsed.
CyclicRoots == {"K"}

\* DataType attribute of a node: the numeric identifier of its type.
DataTypeOf(n) ==
    CASE n = "A" -> 1
      [] n = "B" -> 6
      [] n = "C" -> 4
      [] n = "F" -> 10
      [] n = "L" -> 8
      [] n = "D" -> 11
      [] n = "S" -> 12
      [] n = "V" -> 4
      [] n = "X" -> 3003
      [] OTHER   -> 0

\* A value read from the controller: its JavaScript type and its content
\* (a boolean is held as 0 or 1).
Bool(v) == [type |-> "boolean", v |-> v]
Num(v) == [type |-> "number", v |-> v]
NaN == [type |-> "NaN", v |-> 0]
\* A string is held as its index in StringTable.
StringTable == <<"1e2", "0x10", "12px", "x">>
Str(k) == [type |-> "string", v |-> k]
Null == [type |-> "null", v |-> 0]
\* An object with the optional own properties a and b (0: absent), held as
\* 10 * a + b; an array carries its extra own properties the same way.
Struct(a, b) == [type |-> "struct", v |-> 10 * a + b]
Array(a, b) == [type |-> "array", v |-> 10 * a + b]

InitValue(n) ==
    CASE n = "A" -> Bool(0)
      [] n = "B" -> Num(42)
      [] n = "C" -> Num(7)
      [] n = "F" -> Num(3)
      [] n = "L" -> Num(9)
      [] n = "D" -> Num(5)
      [] n = "S" -> Str(4)
      [] n = "V" -> Array(0, 0)
      [] n = "N" -> Null
      [] n = "X" -> Struct(1, 2)
      [] OTHER   -> Num(0)

\* The nodes whose value the controller changes, and how.
ChangingNodes == {"A"}
NextValue(n, v) == IF v.type = "boolean" THEN Bool(1 - v.v) ELSE Num(v.v + 1)

\* The node identifiers the user hands to addItemToMonitor.
UserNodes == {"A", "C"}

Calls == 1..MaxBrowseCalls

VARIABLES
    variant,          \* "emitter" (part_000) or "logger" (index.js)
    session,          \* this.session: "null", "open" or "closed"
    plcValue,         \* Value attribute of each node inside the controller
    plcChanges,       \* number of value changes so far
    itemsAvailable,   \* this.itemsAvailable
    itemsToMonitor,   \* this.itemsToMonitor
    currentBrowsing,  \* this.currentBrowsing
    file,             \* content of the cache file
    pendingWrites,    \* fs.writeFile calls whose write has not completed
    writeCount,       \* number of fs.writeFile calls issued
    pc,               \* position of each browse() call
    stack,            \* frames of #browseNodeRecursiv of each browse() call
    root,             \* rootNode argument of each browse() call
    mon,              \* monitor argument of each browse() call
    startItems,       \* itemsAvailable when the browse() call was made
    found,            \* nodes the browse() call appended to itemsAvailable
    clean,            \* no other browse or cache load since the call was made
    stable,           \* no value change since the call was made
    rebrowse,         \* the call repeats the browse that completed just before
    adds,             \* bag of addItemToMonitor calls suspended at an await
    addCalls,         \* number of addItemToMonitor calls made by the user
    addOverlap,       \* some addItemToMonitor call started while another ran
    subscription,     \* this.subscription: 0 for null, else its number
    subs,             \* the subscriptions created: state and monitored nodes
    starting,         \* startMonitoringDataChanges calls awaiting creation
    startCalls,       \* number of startMonitoringDataChanges calls made
    closing,          \* position of the close() call made since the last start
    notified,         \* the change notifications delivered so far
    events,           \* the itemChanged events emitted so far
    received,         \* the itemChanged events each listener was handed
    SocketIO,         \* this.SocketIO is set (logger variant)
    sessionWrites,    \* the requests handed to session.write so far
    writers,          \* bag of writeData calls suspended at an await
    writeCalls,       \* number of writeData and switchBoolValue calls made
    emitted,          \* the events emitted (or lines logged) by the last step
    last              \* the last step: operation, arguments and result

vars == <<variant, session, plcValue, plcChanges, itemsAvailable,
          itemsToMonitor, currentBrowsing, file, pendingWrites, writeCount,
          pc, stack, root, mon, startItems, found, clean, stable, rebrowse,
          adds, addCalls, addOverlap, subscription, subs, starting,
          startCalls, closing, notified, events, received, SocketIO,
          sessionWrites, writers, writeCalls, emitted, last>>

browseVars == <<pc, stack, root, mon, startItems, found, clean, stable,
                rebrowse>>
addVars == <<adds, addCalls, addOverlap>>
fileVars == <<file, pendingWrites, writeCount>>
plcVars == <<plcValue, plcChanges>>
subVars == <<subscription, subs, starting, startCalls>>
eventVars == <<notified, events, received>>
monVars == <<subVars, closing, eventVars, SocketIO>>
writeVars == <<sessionWrites, writers, writeCalls>>

(***************************************************************************)
(* Values of the program.                                                  *)
(***************************************************************************)
\* A node identifier is held either as a NodeId object (what the session
\* hands out) or as its string form (what JSON and the user supply).
NodeIdObject(n) == [form |-> "NodeId", id |-> n]
NodeIdString(n) == [form |-> "string", id |-> n]
toString(x) == [form |-> "string", id |-> x.id]

\* Results of getItemsFromCacheFile.
Busy == 5
NotFound == 6

\* How a step of a call ends: the call goes on or returns undefined, it
\* returns false, it throws (its promise is rejected), or it returns the
\* status code that session.write produced.
Resolved == 0
ReturnedFalse == 1
Threw == 2
ReturnedStatus == 3

Absent == [kind |-> "absent", items |-> <<>>]
Malformed == [kind |-> "malformed", items |-> <<>>]

Step(op, call, node, result) ==
    [op |-> op, call |-> call, node |-> node, result |-> result,
     cached |-> FALSE, fwd |-> FALSE]

Range(s) == {s[i] : i \in 1..Len(s)}

Active(b) == pc[b] \in {"browse", "readType", "readValue"}

(***************************************************************************)
(* Lookups.                                                                *)
(***************************************************************************)
\* Mutant of FindAvailableItemIndex: compares with === and without
\* who.toString(), so an entry read back from the cache file never matches.
FindAvailableItemIndexStrict(who) ==
    LET hits == {i \in 1..Len(itemsAvailable) : itemsAvailable[i].node = who}
    IN IF hits = {} THEN 0 ELSE CHOOSE i \in hits : \A j \in hits : i <= j

\* Array.prototype.findIndex: the first index that matches, 0 for -1.
FindAvailableItemIndex(who) ==
    LET w == toString(who)
        hits == {i \in 1..Len(itemsAvailable) :
                    toString(itemsAvailable[i].node) = w}
    IN IF hits = {} THEN 0 ELSE CHOOSE i \in hits : \A j \in hits : i <= j

\* Mutant of FindMonitoredItem: searches itemsAvailable, as its neighbour
\* FindAvailableItem does.
FindMonitoredItemInAvailable(who) ==
    LET w == toString(who)
    IN \E i \in 1..Len(itemsAvailable) : toString(itemsAvailable[i].node) = w

\* Array.prototype.find: TRUE when an entry matches (not undefined).
FindMonitoredItem(who) ==
    LET w == toString(who)
    IN \E i \in 1..Len(itemsToMonitor) : toString(itemsToMonitor[i].nodeId) = w

(***************************************************************************)
(* Events.  The EventEmitter variant emits named events, the logger        *)
(* variant writes log lines; both are recorded as <<channel, text>>.       *)
(***************************************************************************)
Ev(channel, text) == <<channel, text>>
Emit(emitterEvents, loggerLines) ==
    IF variant = "emitter" THEN emitterEvents ELSE loggerLines

DuplicateReport ==
    Emit(<<Ev("error", "Item already monitored")>>,
         <<Ev("info", "Item already monitored")>>)

(***************************************************************************)
(* The cache file.  JSON.stringify turns every NodeId object into its      *)
(* string form; JSON.parse gives the strings back.                         *)
(***************************************************************************)
JsonItem(item) == [item EXCEPT !.node = toString(item.node)]
JsonStringify(items) ==
    [kind |-> "json", items |-> [i \in 1..Len(items) |-> JsonItem(items[i])]]
JsonParse(text) == text.items

\* A cache file left by an earlier run of the program.
StaleFile ==
    JsonStringify(<<[node |-> NodeIdObject("C"), dataTypeId |-> DataTypeOf("C"),
                     value |-> Num(0)]>>)

RemoveAt(s, k) == SubSeq(s, 1, k - 1) \o SubSeq(s, k + 1, Len(s))

(***************************************************************************)
(* Initial state: the object as the constructor leaves it.  The           *)
(* constructor deletes cacheDirectory/cacheFile, while the file that is    *)
(* read and written is CACHE_DIR/CACHE_ITEMS_FILE, which may be absent,    *)
(* damaged or left over.                                                   *)
(***************************************************************************)
Init ==
    /\ variant \in {"emitter", "logger"}
    /\ session = "null"
    /\ plcValue = [n \in Nodes |-> InitValue(n)]
    /\ plcChanges = 0
    /\ itemsAvailable = <<>>
    /\ itemsToMonitor = <<>>
    /\ currentBrowsing = FALSE
    /\ file \in {Absent, StaleFile}
    /\ pendingWrites = <<>>
    /\ writeCount = 0
    /\ pc = [b \in Calls |-> "idle"]
    /\ stack = [b \in Calls |-> <<>>]
    /\ root = [b \in Calls |-> NoNode]
    /\ mon = [b \in Calls |-> FALSE]
    /\ startItems = [b \in Calls |-> <<>>]
    /\ found = [b \in Calls |-> {}]
    /\ clean = [b \in Calls |-> FALSE]
    /\ stable = [b \in Calls |-> FALSE]
    /\ rebrowse = [b \in Calls |-> FALSE]
    /\ adds = EmptyBag
    /\ addCalls = 0
    /\ addOverlap = FALSE
    /\ subscription = 0
    /\ subs = <<>>
    /\ starting = 0
    /\ startCalls = 0
    /\ closing = "idle"
    /\ notified = <<>>
    /\ events = <<>>
    /\ received = [l \in {"first", "second"} |-> <<>>]
    /\ SocketIO = FALSE
    /\ sessionWrites = <<>>
    /\ writers = EmptyBag
    /\ writeCalls = 0
    /\ emitted = <<>>
    /\ last = Step("new", 0, NoNode, 0)

(***************************************************************************)
(* Session lifecycle and the controller.                                   *)
(***************************************************************************)
\* connect(): creates the session.
Connect ==
    /\ session = "null"
    /\ session' = "open"
    /\ emitted' = Emit(<<Ev("connected", "")>>, <<Ev("debug", "Session created")>>)
    /\ last' = Step("connect", 0, NoNode, 0)
    /\ UNCHANGED <<variant, monVars, writeVars,
                   plcVars, itemsAvailable, itemsToMonitor,
                   currentBrowsing, fileVars, browseVars, addVars>>

\* close(): closes the session if there is one.
Close ==
    /\ session = "open"
    /\ session' = "closed"
    /\ emitted' = Emit(<<Ev("session_closed", "")>>, <<>>)
    /\ last' = Step("close", 0, NoNode, 0)
    /\ UNCHANGED <<variant, monVars, writeVars,
                   plcVars, itemsAvailable, itemsToMonitor,
                   currentBrowsing, fileVars, browseVars, addVars>>

\* The controller changes the value of a node.
PlcChange(n) ==
    /\ plcChanges < MaxPlcChanges
    /\ plcValue' = [plcValue EXCEPT ![n] = NextValue(n, plcValue[n])]
    /\ plcChanges' = plcChanges + 1
    /\ stable' = [b \in Calls |-> FALSE]
    /\ emitted' = <<>>
    /\ last' = Step("plcChange", 0, n, 0)
    /\ UNCHANGED <<variant, monVars, writeVars,
                   session, itemsAvailable, itemsToMonitor,
                   currentBrowsing, fileVars, pc, stack, root, mon, startItems,
                   found, clean, rebrowse, addVars>>

(***************************************************************************)
(* addItemToMonitor.                                                       *)
(***************************************************************************)
MonitoredItemSpec(nodeId, value) ==
    [nodeId |-> nodeId, dataTypeId |-> DataTypeOf(nodeId.id), value |-> value]

\* An addItemToMonitor call suspended at an await.
Suspended(nodeId, at) == [nodeId |-> nodeId, pc |-> at]

\* addItemToMonitor(nodeId) called by the user: the duplicate check, then
\* the call suspends at readDataType.
AddItemToMonitor(n) ==
    /\ addCalls < MaxAddCalls
    /\ addCalls' = addCalls + 1
    /\ addOverlap' = (addOverlap \/ adds # EmptyBag)
    /\ IF FindMonitoredItem(NodeIdString(n))
         THEN /\ emitted' = DuplicateReport
              /\ adds' = adds
              /\ last' = Step("addItemToMonitor", 0, n, 0)
         ELSE /\ emitted' = Emit(<<Ev("beforeMonitorItem", n)>>, <<>>)
              /\ adds' = adds (+) SetToBag({Suspended(NodeIdString(n),
                                                        "readType")})
              /\ last' = Step("addItemToMonitor", 0, n, 0)
    /\ UNCHANGED <<variant, monVars, writeVars,
                   session, plcVars, itemsAvailable, itemsToMonitor,
                   currentBrowsing, fileVars, browseVars>>

\* The session answers the readDataType of a suspended addItemToMonitor.
AddReadType(a) ==
    /\ a \in BagToSet(adds)
    /\ a.pc = "readType"
    /\ IF session = "open"
         THEN /\ adds' = (adds (-) SetToBag({a}))
                             (+) SetToBag({Suspended(a.nodeId, "readValue")})
              /\ last' = Step("addReadType", 0, a.nodeId.id, 0)
         ELSE /\ adds' = adds (-) SetToBag({a})
              /\ last' = Step("addRejected", 0, a.nodeId.id, Threw)
    /\ emitted' = <<>>
    /\ UNCHANGED <<variant, monVars, writeVars,
                   session, plcVars, itemsAvailable, itemsToMonitor,
                   currentBrowsing, fileVars, browseVars, addCalls, addOverlap>>

\* The session answers the readData of a suspended addItemToMonitor: the
\* item is pushed.
AddReadValue(a) ==
    /\ a \in BagToSet(adds)
    /\ a.pc = "readValue"
    /\ adds' = adds (-) SetToBag({a})
    /\ IF session = "open"
         THEN /\ itemsToMonitor' =
                    Append(itemsToMonitor,
                           MonitoredItemSpec(a.nodeId, plcValue[a.nodeId.id]))
              /\ emitted' = Emit(<<Ev("afterMonitorItem", a.nodeId.id)>>,
                                 <<Ev("info", "Add item to monitor")>>)
              /\ last' = Step("addDone", 0, a.nodeId.id, 0)
         ELSE /\ itemsToMonitor' = itemsToMonitor
              /\ emitted' = <<>>
              /\ last' = Step("addRejected", 0, a.nodeId.id, Threw)
    /\ UNCHANGED <<variant, monVars, writeVars,
                   session, plcVars, itemsAvailable, currentBrowsing,
                   fileVars, browseVars, addCalls, addOverlap>>

(***************************************************************************)
(* browse and #browseNodeRecursiv.                                         *)
(*                                                                         *)
(* stack[b] holds one frame per nested #browseNodeRecursiv call: the node  *)
(* browsed, the loop index i (1-based) and the frame's monitor parameter.  *)
(* pc[b] says which answer the innermost frame is waiting for.             *)
(***************************************************************************)
Frame(n, m) == [node |-> n, i |-> 1, monitor |-> m]
Top(b) == stack[b][Len(stack[b])]
Child(b) == Refs(Top(b).node)[Top(b).i]

\* The monitor argument of the recursive call: the call passes nodeId and
\* level + 1 only, so the parameter takes its default.
RecursiveMonitor(m) == FALSE

DiscoveredItem(n, value) ==
    [node |-> NodeIdObject(n), dataTypeId |-> DataTypeOf(n), value |-> value]

\* Mutant of Upsert: pushes whether or not the node is cached.
UpsertPush(items, index, item) == Append(items, item)

\* The update-or-push of #browseNodeRecursiv.
Upsert(items, index, item) ==
    IF index # 0 THEN [items EXCEPT ![index] = item] ELSE Append(items, item)

\* Mutant of Unwind: the loop returns the result of its first recursive
\* call, so no frame goes on to its next reference.
UnwindReturn(st) == <<>>

\* Mutant of Unwind: the loop of the caller does not increment i, so it
\* reads the same reference again.
UnwindStuck(st) == SubSeq(st, 1, Len(st) - 1)

\* A frame whose loop has ended returns to its caller, whose loop moves to
\* its next reference; <<>> when the outermost frame has returned.
RECURSIVE Unwind(_)
Unwind(st) ==
    LET rest == SubSeq(st, 1, Len(st) - 1)
    IN IF rest = <<>> THEN <<>>
       ELSE LET n == Len(rest)
                up == [rest EXCEPT ![n].i = rest[n].i + 1]
            IN IF up[n].i <= Len(Refs(up[n].node)) THEN up ELSE Unwind(up)

\* browse(rootNode, monitor) up to the first await of #browseNodeRecursiv.
\* The records kept of the calls that ended earlier are dropped.
Browse(b, r, m) ==
    /\ pc[b] = "idle"
    /\ \A c \in Calls : c < b => pc[c] # "idle"
    /\ pc' = [pc EXCEPT ![b] = "browse"]
    /\ stack' = [stack EXCEPT ![b] = <<Frame(r, m)>>]
    /\ root' = [c \in Calls |->
                   IF c = b THEN r ELSE IF Active(c) THEN root[c] ELSE NoNode]
    /\ mon' = [c \in Calls |-> IF c = b THEN m ELSE Active(c) /\ mon[c]]
    /\ currentBrowsing' = TRUE
    /\ startItems' = [c \in Calls |->
                         IF c = b THEN itemsAvailable
                         ELSE IF Active(c) THEN startItems[c] ELSE <<>>]
    /\ found' = [c \in Calls |->
                    IF c # b /\ Active(c) THEN found[c] ELSE {}]
    /\ clean' = [c \in Calls |-> c = b /\ \A d \in Calls : ~Active(d)]
    /\ stable' = [c \in Calls |-> c = b \/ (Active(c) /\ stable[c])]
    /\ rebrowse' = [c \in Calls |->
                       IF c # b THEN Active(c) /\ rebrowse[c]
                       ELSE /\ \A d \in Calls : ~Active(d)
                            /\ \E d \in Calls : /\ pc[d] = "done"
                                                /\ root[d] = r
                                                /\ clean[d]
                                                /\ stable[d]]
    /\ emitted' = Emit(<<Ev("beforeBrowsing", r)>>, <<Ev("info", "Browsing root")>>)
    /\ last' = Step("browse", b, r, 0)
    /\ UNCHANGED <<variant, monVars, writeVars,
                   session, plcVars, itemsAvailable, itemsToMonitor,
                   fileVars, addVars>>

\* Mutant of BrowseRejected: the callback of browse() is attached with
\* .finally, so it writes the cache file after a failed traversal too.
BrowseRejectedFinally(b) ==
    /\ pc' = [pc EXCEPT ![b] = "failed"]
    /\ stack' = [stack EXCEPT ![b] = <<>>]
    /\ pendingWrites' = Append(pendingWrites, JsonStringify(itemsAvailable))
    /\ writeCount' = writeCount + 1
    /\ currentBrowsing' = FALSE
    /\ emitted' = <<>>
    /\ last' = Step("browseRejected", b, root[b], 0)
    /\ UNCHANGED <<variant, monVars, writeVars,
                   session, plcVars, itemsAvailable, itemsToMonitor,
                   file, root, mon, startItems, found, clean, stable, rebrowse,
                   addVars>>

\* Mutant of BrowseRejected: browse() wraps its await in try/finally and
\* emits afterBrowsing for a failed traversal too.
BrowseRejectedEmits(b) ==
    /\ pc' = [pc EXCEPT ![b] = "failed"]
    /\ stack' = [stack EXCEPT ![b] = <<>>]
    /\ emitted' = Emit(<<Ev("afterBrowsing", root[b])>>, <<>>)
    /\ last' = Step("browseRejected", b, root[b], 0)
    /\ UNCHANGED <<variant, monVars, writeVars,
                   session, plcVars, itemsAvailable, itemsToMonitor,
                   currentBrowsing, fileVars, root, mon, startItems, found,
                   clean, stable, rebrowse, addVars>>

\* A request of the traversal fails: #browseNodeRecursiv rejects through
\* every frame and browse() rejects; the .then callback does not run.
BrowseRejected(b) ==
    /\ pc' = [pc EXCEPT ![b] = "failed"]
    /\ stack' = [stack EXCEPT ![b] = <<>>]
    /\ emitted' = <<>>
    /\ last' = Step("browseRejected", b, root[b], 0)
    /\ UNCHANGED <<variant, monVars, writeVars,
                   session, plcVars, itemsAvailable, itemsToMonitor,
                   currentBrowsing, fileVars, root, mon, startItems, found,
                   clean, stable, rebrowse, addVars>>

\* The innermost loop has ended.  Either an outer loop goes on with its next
\* reference, or the traversal is over and the .then callback of browse()
\* writes the cache file and clears the flag.
BrowseReturn(b) ==
    LET st == Unwind(stack[b])
    IN /\ stack' = [stack EXCEPT ![b] = st]
       /\ IF st # <<>>
            THEN /\ pc' = [pc EXCEPT ![b] = "readType"]
                 /\ emitted' = <<>>
                 /\ last' = Step("browseReturn", b, Top(b).node, 0)
                 /\ UNCHANGED <<currentBrowsing, fileVars>>
            ELSE /\ pc' = [pc EXCEPT ![b] = "done"]
                 /\ pendingWrites' =
                        Append(pendingWrites, JsonStringify(itemsAvailable))
                 /\ writeCount' = writeCount + 1
                 /\ file' = file
                 /\ currentBrowsing' = FALSE
                 /\ emitted' = Emit(<<Ev("afterBrowsing", root[b])>>,
                                    <<Ev("info", "Browsing OK, cache values")>>)
                 /\ last' = Step("browseResolved", b, root[b], 0)
       /\ UNCHANGED <<variant, monVars, writeVars,
                      session, plcVars, itemsAvailable,
                      itemsToMonitor, root, mon, startItems, found, clean,
                      stable, rebrowse, addVars>>

\* The session answers session.browse(nodeId).
BrowseResponse(b) ==
    /\ pc[b] = "browse"
    /\ IF session # "open" THEN BrowseRejected(b)
       ELSE IF Refs(Top(b).node) = <<>> THEN BrowseReturn(b)
       ELSE /\ pc' = [pc EXCEPT ![b] = "readType"]
            /\ emitted' = <<>>
            /\ last' = Step("browseResponse", b, Top(b).node, 0)
            /\ UNCHANGED <<variant, monVars, writeVars,
                           session, plcVars, itemsAvailable,
                           itemsToMonitor, currentBrowsing, fileVars, stack,
                           root, mon, startItems, found, clean, stable,
                           rebrowse, addVars>>

\* The session answers readDataType of the current reference.
ReadTypeResponse(b) ==
    /\ pc[b] = "readType"
    /\ IF session # "open" THEN BrowseRejected(b)
       ELSE /\ pc' = [pc EXCEPT ![b] = "readValue"]
            /\ emitted' = <<>>
            /\ last' = Step("readType", b, Child(b), 0)
            /\ UNCHANGED <<variant, monVars, writeVars,
                           session, plcVars, itemsAvailable,
                           itemsToMonitor, currentBrowsing, fileVars, stack,
                           root, mon, startItems, found, clean, stable,
                           rebrowse, addVars>>

\* addItemToMonitor as called by #browseNodeRecursiv, never awaited.  The
\* EventEmitter variant passes dataTypeId, dataType and values, so the call
\* runs to its end at once; the logger variant passes the nodeId only, so
\* the call suspends at readDataType.
ForwardToMonitor(n, value) ==
    /\ addOverlap' = (addOverlap \/ adds # EmptyBag)
    /\ addCalls' = addCalls
    /\ IF FindMonitoredItem(NodeIdObject(n))
         THEN /\ emitted' = DuplicateReport
              /\ UNCHANGED <<itemsToMonitor, adds>>
         ELSE IF variant = "emitter"
         THEN /\ itemsToMonitor' =
                    Append(itemsToMonitor,
                           MonitoredItemSpec(NodeIdObject(n), value))
              /\ adds' = adds
              /\ emitted' = <<Ev("beforeMonitorItem", n),
                              Ev("afterMonitorItem", n)>>
         ELSE /\ adds' = adds (+) SetToBag({Suspended(NodeIdObject(n),
                                                        "readType")})
              /\ itemsToMonitor' = itemsToMonitor
              /\ emitted' = <<>>

\* The session answers readData of the current reference: the item is
\* upserted, forwarded to addItemToMonitor when it is new and the frame's
\* monitor is set, and the recursive call starts (it sets currentBrowsing
\* and issues its session.browse).  The recursion has no bound of its own;
\* MaxDepth bounds the frames the model follows.
ReadValueResponse(b) ==
    /\ pc[b] = "readValue"
    /\ IF session # "open" THEN BrowseRejected(b)
       ELSE LET n == Child(b)
                index == FindAvailableItemIndex(NodeIdObject(n))
                forward == index = 0 /\ Top(b).monitor
            IN /\ itemsAvailable' = Upsert(itemsAvailable, index,
                                           DiscoveredItem(n, plcValue[n]))
               /\ found' = [found EXCEPT ![b] =
                               IF index = 0 THEN @ \cup {n} ELSE @]
               /\ IF forward THEN ForwardToMonitor(n, plcValue[n])
                  ELSE /\ emitted' = <<>>
                       /\ UNCHANGED <<itemsToMonitor, addVars>>
               /\ Len(stack[b]) < MaxDepth
               /\ stack' = [stack EXCEPT ![b] =
                               Append(@, Frame(n, RecursiveMonitor(Top(b).monitor)))]
               /\ currentBrowsing' = TRUE
               /\ pc' = [pc EXCEPT ![b] = "browse"]
               /\ last' = [Step("visit", b, n, 0) EXCEPT
                              !.cached = (index # 0), !.fwd = forward]
               /\ UNCHANGED <<variant, monVars, writeVars,
                              session, plcVars, fileVars, root, mon,
                              startItems, clean, stable, rebrowse>>

(***************************************************************************)
(* The cache file.                                                         *)
(***************************************************************************)
\* fs.writeFile completes: the file holds the text handed to that call.
WriteFileDone(k) ==
    /\ k \in 1..Len(pendingWrites)
    /\ file' = pendingWrites[k]
    /\ pendingWrites' = RemoveAt(pendingWrites, k)
    /\ emitted' = <<>>
    /\ last' = Step("writeFileDone", 0, NoNode, 0)
    /\ UNCHANGED <<variant, monVars, writeVars,
                   session, plcVars, itemsAvailable, itemsToMonitor,
                   currentBrowsing, writeCount, browseVars, addVars>>

\* fs.writeFile has opened the file for writing, which empties it, and has
\* not written the text yet: the file is there and holds no valid JSON.
WriteFileOpened(k) ==
    /\ k \in 1..Len(pendingWrites)
    /\ file' = Malformed
    /\ emitted' = <<>>
    /\ last' = Step("writeFileOpened", 0, NoNode, 0)
    /\ UNCHANGED <<variant, monVars, writeVars,
                   session, plcVars, itemsAvailable, itemsToMonitor,
                   currentBrowsing, pendingWrites, writeCount, browseVars,
                   addVars>>

\* getItemsFromCacheFile(): 5 while currentBrowsing, 6 without a file,
\* otherwise this.itemsAvailable (result 0), replaced by the parsed file
\* unless JSON.parse throws.
getItemsFromCacheFile ==
    /\ IF currentBrowsing
         THEN /\ last' = Step("getItemsFromCacheFile", 0, NoNode, Busy)
              /\ emitted' = <<>>
              /\ UNCHANGED <<itemsAvailable, clean>>
         ELSE IF file.kind = "absent"
         THEN /\ last' = Step("getItemsFromCacheFile", 0, NoNode, NotFound)
              /\ emitted' = Emit(<<Ev("error", "Cache file not found !")>>,
                                 <<Ev("error", "File doest not exist")>>)
              /\ UNCHANGED <<itemsAvailable, clean>>
         ELSE IF file.kind = "malformed"
         THEN /\ last' = Step("getItemsFromCacheFile", 0, NoNode, 0)
              /\ emitted' = Emit(<<Ev("error", "Error reading cache file")>>,
                                 <<Ev("error", "Read cache file : KO")>>)
              /\ UNCHANGED <<itemsAvailable, clean>>
         ELSE /\ last' = Step("getItemsFromCacheFile", 0, NoNode, 0)
              /\ itemsAvailable' = JsonParse(file)
              /\ clean' = [c \in Calls |-> FALSE]
              /\ emitted' = Emit(<<>>, <<Ev("debug", "Read cache file : OK")>>)
    /\ UNCHANGED <<variant, monVars, writeVars,
                   session, plcVars, itemsToMonitor, currentBrowsing,
                   fileVars, pc, stack, root, mon, startItems, found, stable,
                   rebrowse, addVars>>

\* browse() called while no other browse() call is running, as a caller
\* does that awaits each browse() before the next.
BrowseInTurn(b, r, m) ==
    /\ \A c \in Calls : ~Active(c)
    /\ Browse(b, r, m)

(***************************************************************************)
(* writeData and switchBoolValue.                                          *)
(***************************************************************************)
\* The JavaScript operators the write path applies to a value.
TypeOf(x) ==
    CASE x.type \in {"null", "array", "struct"} -> "object"
      [] x.type = "NaN" -> "number"
      [] OTHER -> x.type

\* !x
Not(x) ==
    CASE x.type = "boolean" -> Bool(1 - x.v)
      [] x.type = "number" -> Bool(IF x.v = 0 THEN 1 ELSE 0)
      [] x.type = "string" -> Bool(0)
      [] x.type \in {"NaN", "null"} -> Bool(1)
      [] OTHER -> Bool(0)

\* Number.parseInt(x): the leading decimal or 0x-prefixed integer of
\* String(x), NaN without one.
ParseInt(x) ==
    CASE x.type = "number" -> x
      [] x.type = "string" /\ StringTable[x.v] = "1e2" -> Num(1)
      [] x.type = "string" /\ StringTable[x.v] = "0x10" -> Num(16)
      [] x.type = "string" /\ StringTable[x.v] = "12px" -> Num(12)
      [] OTHER -> NaN

\* Number.parseFloat(x): the leading decimal literal of String(x), exponent
\* included, NaN without one.
ParseFloat(x) ==
    CASE x.type = "number" -> x
      [] x.type = "string" /\ StringTable[x.v] = "1e2" -> Num(100)
      [] x.type = "string" /\ StringTable[x.v] = "0x10" -> Num(0)
      [] x.type = "string" /\ StringTable[x.v] = "12px" -> Num(12)
      [] OTHER -> NaN

\* The own properties of an object: a, b and, once a string was assigned
\* to it, the characters of that string (0: none).
PropA(x) == (x.v \div 10) % 10
PropB(x) == x.v % 10
Chars(x) == x.v \div 100
IsObject(x) == x.type \in {"array", "struct"}

\* Object.assign(target, source): the own enumerable properties of source
\* are copied over those of target, which is changed in place; a number or
\* a boolean has none, a string has its characters.
Assign(target, source) ==
    LET a == IF IsObject(source) /\ PropA(source) # 0
                THEN PropA(source) ELSE PropA(target)
        b == IF IsObject(source) /\ PropB(source) # 0
                THEN PropB(source) ELSE PropB(target)
        c == IF source.type = "string" THEN source.v
             ELSE IF IsObject(source) /\ Chars(source) # 0 THEN Chars(source)
             ELSE Chars(target)
    IN [type |-> target.type, v |-> 100 * c + 10 * a + b]

\* The values handed to writeData as `what`.
WriteInputs == {Bool(1), Num(8), Str(1), Str(4), Struct(0, 5)}

\* The node identifiers handed to writeData and switchBoolValue.
WriteNodes == {"A", "C", "B", "F", "L", "D", "S", "V", "N", "X"}

\* Array.prototype.find as an index: the first entry that matches, 0 for
\* undefined.
MonitoredItemIndex(who) ==
    LET w == toString(who)
        hits == {i \in 1..Len(itemsToMonitor) :
                    toString(itemsToMonitor[i].nodeId) = w}
    IN IF hits = {} THEN 0 ELSE CHOOSE i \in hits : \A j \in hits : i <= j

\* Mutant of NumberCoercion: Float values go through parseInt as well.
NumberCoercionAllInt(code, what) ==
    CASE code = 10 -> [dataType |-> "Float", value |-> ParseInt(what)]
      [] code = 4 -> [dataType |-> "Int16", value |-> ParseInt(what)]
      [] code = 6 -> [dataType |-> "Int32", value |-> ParseInt(what)]
      [] code = 8 -> [dataType |-> "Int64", value |-> ParseInt(what)]
      [] OTHER -> [dataType |-> "Null", value |-> Null]

\* case "number": the wire type and value by item.dataType.value; for any
\* other code WriteValue and WriteDataType stay null.
NumberCoercion(code, what) ==
    CASE code = 10 -> [dataType |-> "Float", value |-> ParseFloat(what)]
      [] code = 4 -> [dataType |-> "Int16", value |-> ParseInt(what)]
      [] code = 6 -> [dataType |-> "Int32", value |-> ParseInt(what)]
      [] code = 8 -> [dataType |-> "Int64", value |-> ParseInt(what)]
      [] OTHER -> [dataType |-> "Null", value |-> Null]

\* The argument of session.write.
WriteRequest(nodeId, coerced) ==
    [nodeId |-> nodeId, dataType |-> coerced.dataType, value |-> coerced.value]

\* A writeData call suspended at an await.
Writer(n, what, at, coerced) ==
    [who |-> n, what |-> what, pc |-> at, dataType |-> coerced.dataType,
     value |-> coerced.value]

NotCoerced == [dataType |-> "none", value |-> Null]

BeforeWrite(n) ==
    Emit(<<Ev("beforeWrite", n)>>, <<Ev("info", "Write data")>>)

\* What the synchronous part of a call did: its result, this.itemsToMonitor
\* after it, the requests it handed to session.write, the suspended call
\* it left behind, and what it emitted.
Outcome(result, items, requests, suspended, evs) ==
    [result |-> result, items |-> items, requests |-> requests,
     suspended |-> suspended, emitted |-> evs]

\* return await this.session.write({...}) up to the await.
IssueWrite(n, what, item, coerced) ==
    IF session = "null"
      THEN Outcome(Threw, itemsToMonitor, <<>>, {}, BeforeWrite(n))
      ELSE Outcome(Resolved, itemsToMonitor,
                   <<WriteRequest(item.nodeId, coerced)>>,
                   {Writer(n, what, "write", coerced)}, BeforeWrite(n))

ReplaceValue(i, value) == [itemsToMonitor EXCEPT ![i].value = value]

UnknownTypeReport ==
    Emit(<<Ev("error", "Write : Unknown data type")>>,
         <<Ev("error", "Unknown data type")>>)

\* The synchronous part of writeData(who, what).  An unknown node makes
\* the EventEmitter variant return (item === undefined is tested) and the
\* logger variant throw at `typeof item.value`.
WriteOutcome(n, what) ==
    LET i == MonitoredItemIndex(NodeIdString(n))
        item == itemsToMonitor[i]
    IN IF i = 0
         THEN IF variant = "emitter"
                THEN Outcome(Resolved, itemsToMonitor, <<>>, {}, BeforeWrite(n))
                ELSE Outcome(Threw, itemsToMonitor, <<>>, {}, BeforeWrite(n))
       ELSE IF TypeOf(item.value) = "boolean"
         THEN IssueWrite(n, what, item,
                         [dataType |-> "Boolean", value |-> what])
       ELSE IF TypeOf(item.value) = "object"
         THEN IF item.value.type = "null"
                THEN Outcome(Threw, itemsToMonitor, <<>>, {}, BeforeWrite(n))
              ELSE IF session = "null"
                THEN Outcome(Threw, ReplaceValue(i, Assign(item.value, what)),
                             <<>>, {}, BeforeWrite(n))
              ELSE Outcome(Resolved, ReplaceValue(i, Assign(item.value, what)),
                           <<>>, {Writer(n, what, "construct", NotCoerced)},
                           BeforeWrite(n))
       ELSE IF TypeOf(item.value) = "number"
         THEN IssueWrite(n, what, item, NumberCoercion(item.dataTypeId, what))
       ELSE Outcome(ReturnedFalse, itemsToMonitor, <<>>, {},
                    BeforeWrite(n) \o UnknownTypeReport)

\* A call of the write path made by the user, with the outcome o of its
\* synchronous part.
WriteCall(api, n, o) ==
    /\ writeCalls < MaxWriteCalls
    /\ writeCalls' = writeCalls + 1
    /\ itemsToMonitor' = o.items
    /\ sessionWrites' = sessionWrites \o o.requests
    /\ writers' = writers (+) SetToBag(o.suspended)
    /\ emitted' = o.emitted
    /\ last' = Step(api, 0, n, o.result)
    /\ UNCHANGED <<variant, monVars, session, plcVars, itemsAvailable,
                   currentBrowsing, fileVars, browseVars, addVars>>

\* writeData(who, what) up to its first await.
WriteData(n, what) == WriteCall("writeData", n, WriteOutcome(n, what))

\* switchBoolValue(who): `item === false` never holds, so an unknown node
\* throws at item.value, and any monitored item is written with
\* !item.value.
SwitchBoolValue(n) ==
    LET i == MonitoredItemIndex(NodeIdString(n))
    IN WriteCall("switchBoolValue", n,
                 IF i = 0
                   THEN Outcome(Threw, itemsToMonitor, <<>>, {}, <<>>)
                   ELSE WriteOutcome(n, Not(itemsToMonitor[i].value)))

\* constructExtensionObject settles: the merged value goes to session.write
\* as an ExtensionObject, or writeData is rejected.
WriteConstructed(w, ok) ==
    /\ w \in BagToSet(writers)
    /\ w.pc = "construct"
    /\ LET i == MonitoredItemIndex(NodeIdString(w.who))
           coerced == [dataType |-> "ExtensionObject",
                       value |-> itemsToMonitor[i].value]
       IN IF ok /\ session = "open"
            THEN /\ sessionWrites' =
                       Append(sessionWrites,
                              WriteRequest(itemsToMonitor[i].nodeId, coerced))
                 /\ writers' = (writers (-) SetToBag({w}))
                       (+) SetToBag({Writer(w.who, w.what, "write", coerced)})
                 /\ last' = Step("constructed", 0, w.who, Resolved)
            ELSE /\ sessionWrites' = sessionWrites
                 /\ writers' = writers (-) SetToBag({w})
                 /\ last' = Step("writeRejected", 0, w.who, Threw)
    /\ emitted' = <<>>
    /\ UNCHANGED <<variant, monVars, writeCalls, session, plcVars,
                   itemsAvailable, itemsToMonitor, currentBrowsing, fileVars,
                   browseVars, addVars>>

\* The wire type under which the server holds the value of a node.
WireOf(n) ==
    CASE DataTypeOf(n) = 1 /\ InitValue(n).type = "boolean" -> "Boolean"
      [] DataTypeOf(n) = 4 /\ InitValue(n).type = "number" -> "Int16"
      [] DataTypeOf(n) = 6 /\ InitValue(n).type = "number" -> "Int32"
      [] DataTypeOf(n) = 8 /\ InitValue(n).type = "number" -> "Int64"
      [] DataTypeOf(n) = 10 /\ InitValue(n).type = "number" -> "Float"
      [] InitValue(n).type = "struct" -> "ExtensionObject"
      [] OTHER -> "other"

\* The server takes a write whose variant has the type of the node and a
\* value of that type (status Good), and refuses any other.
ServerAccepts(w) ==
    /\ w.dataType = WireOf(w.who)
    /\ w.value.type = InitValue(w.who).type

\* The status code of a settled write, as the text of an event.
StatusCode(w) == IF ServerAccepts(w) THEN "Good" ELSE "Bad"

\* What writeData returns once session.write is fulfilled: the
\* EventEmitter variant returns the result of its .then callback, which
\* returns nothing; the logger variant returns the status code.
WriteReturn == IF variant = "emitter" THEN Resolved ELSE ReturnedStatus

\* session.write settles.  Fulfilled: the EventEmitter variant emits
\* afterWrite with the status code, the logger variant emits nothing.
\* Rejected: writeData is rejected.
WriteResponse(w) ==
    /\ w \in BagToSet(writers)
    /\ w.pc = "write"
    /\ writers' = writers (-) SetToBag({w})
    /\ IF session = "open"
         THEN /\ plcValue' = IF ServerAccepts(w)
                               THEN [plcValue EXCEPT ![w.who] = w.value]
                               ELSE plcValue
              /\ stable' = IF ServerAccepts(w)
                             THEN [b \in Calls |-> FALSE] ELSE stable
              /\ emitted' = Emit(<<Ev("afterWrite", StatusCode(w))>>, <<>>)
              /\ last' = Step("writeFulfilled", 0, w.who, WriteReturn)
         ELSE /\ UNCHANGED <<plcValue, stable>>
              /\ emitted' = <<>>
              /\ last' = Step("writeRejected", 0, w.who, Threw)
    /\ UNCHANGED <<variant, monVars, sessionWrites, writeCalls, session,
                   plcChanges, itemsAvailable, itemsToMonitor, currentBrowsing,
                   fileVars, pc, stack, root, mon, startItems, found, clean,
                   rebrowse, addVars>>

(***************************************************************************)
(* Subscription and change notifications.                                  *)
(***************************************************************************)
\* The listeners registered for itemChanged, in the order of registration,
\* and the one that throws (NoListener: none does).
Listeners == {"first", "second"}
NoListener == "none"
ListenerRank(l) == IF l = "first" THEN 1 ELSE 2

\* this.SocketEmitEvent: read by the changed handler of index.js, never
\* declared and never assigned by the class, hence undefined (falsy).
SocketEmitEvent == FALSE

\* setSocketIO(io) of the logger variant.
SetSocketIO ==
    /\ variant = "logger"
    /\ ~SocketIO
    /\ SocketIO' = TRUE
    /\ emitted' = <<>>
    /\ last' = Step("setSocketIO", 0, NoNode, 0)
    /\ UNCHANGED <<variant, subVars, closing, eventVars, writeVars, session,
                   plcVars, itemsAvailable, itemsToMonitor, currentBrowsing,
                   fileVars, browseVars, addVars>>

\* Mutant of NothingToMonitor: the length test is left out.
NothingToMonitorNever == FALSE

\* this.itemsToMonitor.length == 0
NothingToMonitor == Len(itemsToMonitor) = 0

NothingToMonitorReport ==
    Emit(<<Ev("beforeMonitoring", ""), Ev("error", "No item to monitor !")>>,
         <<Ev("info", "No items to monitor")>>)

Live(i) == subs[i].state = "live"
LiveSubscriptions == {i \in 1..Len(subs) : Live(i)}

\* startMonitoringDataChanges() up to its await: returns at once when
\* there is nothing to monitor, and asks the session for a subscription
\* otherwise, whatever this.subscription holds.  Without an open session
\* the request is rejected.
StartMonitoring ==
    /\ startCalls < MaxStartCalls
    /\ startCalls' = startCalls + 1
    /\ IF NothingToMonitor
         THEN /\ emitted' = NothingToMonitorReport
              /\ last' = Step("startMonitoringDataChanges", 0, NoNode, 0)
              /\ starting' = starting
         ELSE IF session = "open"
         THEN /\ emitted' = Emit(<<Ev("beforeMonitoring", "")>>,
                                 <<Ev("info", "Create Subscription")>>)
              /\ last' = Step("createSubscription2", 0, NoNode, 0)
              /\ starting' = starting + 1
         ELSE /\ emitted' = Emit(<<Ev("beforeMonitoring", "")>>,
                                 <<Ev("info", "Create Subscription")>>)
              /\ last' = Step("startRejected", 0, NoNode, 0)
              /\ starting' = starting
    /\ closing' = IF closing \in {"returned", "failed"} THEN "idle" ELSE closing
    /\ UNCHANGED <<variant, subscription, subs, eventVars, SocketIO,
                   writeVars, session, plcVars, itemsAvailable,
                   itemsToMonitor, currentBrowsing, fileVars, browseVars,
                   addVars>>

\* The subscription handed to monitorItems: live, with the nodes of
\* this.itemsToMonitor at that moment.
NewSubscription ==
    [state |-> "live",
     items |-> {itemsToMonitor[i].nodeId.id : i \in 1..Len(itemsToMonitor)}]

\* The session answers createSubscription2: the subscription is stored in
\* this.subscription and monitorItems is called on it.
SubscriptionCreated ==
    /\ starting > 0
    /\ starting' = starting - 1
    /\ IF session = "open"
         THEN /\ subs' = Append(subs, NewSubscription)
              /\ subscription' = Len(subs) + 1
              /\ emitted' = Emit(<<Ev("afterMonitoring", "")>>, <<>>)
              /\ last' = Step("monitorItems", 0, NoNode, 0)
         ELSE /\ UNCHANGED <<subs, subscription>>
              /\ emitted' = <<>>
              /\ last' = Step("startRejected", 0, NoNode, 0)
    /\ UNCHANGED <<variant, startCalls, closing, eventVars, SocketIO,
                   writeVars, session, plcVars, itemsAvailable,
                   itemsToMonitor, currentBrowsing, fileVars, browseVars,
                   addVars>>

\* The payload of an itemChanged event.
ItemChanged(n, value) == [nodeId |-> NodeIdObject(n), value |-> value]

\* EventEmitter.emit: the listeners are called one after the other in the
\* order of their registration; when listener t throws, the exception
\* leaves emit and the listeners after t are not called.
HandedTo(l, t) == t = NoListener \/ ListenerRank(l) <= ListenerRank(t)

Fanout(event, t) ==
    [l \in Listeners |->
        IF HandedTo(l, t) THEN Append(received[l], event) ELSE received[l]]

\* A live subscription s delivers the value of its monitored node n: the
\* "changed" handler runs.  The EventEmitter variant emits itemChanged to
\* its listeners, of which t throws; the logger variant logs the change and
\* hands it to socket.io only under this.SocketIO && this.SocketEmitEvent.
Notify(s, n, t) ==
    /\ Len(notified) < MaxNotifications
    /\ s \in LiveSubscriptions
    /\ n \in subs[s].items
    /\ notified' = Append(notified, [node |-> n, value |-> plcValue[n]])
    /\ IF variant = "emitter"
         THEN /\ events' = Append(events, ItemChanged(n, plcValue[n]))
              /\ received' = Fanout(ItemChanged(n, plcValue[n]), t)
              /\ emitted' = <<Ev("itemChanged", n)>>
         ELSE /\ t = NoListener
              /\ events' = IF SocketIO /\ SocketEmitEvent
                             THEN Append(events, ItemChanged(n, plcValue[n]))
                             ELSE events
              /\ received' = received
              /\ emitted' = <<Ev("info", "Item changed"), Ev("info", "Value")>>
    /\ last' = Step("changed", s, n, 0)
    /\ UNCHANGED <<variant, subVars, closing, SocketIO, writeVars, session,
                   plcVars, itemsAvailable, itemsToMonitor, currentBrowsing,
                   fileVars, browseVars, addVars>>

\* close() up to its first await: session.close() when there is a session,
\* else subscription.terminate() when there is a subscription.
CloseCall ==
    /\ closing \in {"idle", "returned", "failed"}
    /\ closing' = IF session # "null" THEN "session"
                  ELSE IF subscription # 0 THEN "terminate"
                  ELSE "returned"
    /\ emitted' = <<>>
    /\ last' = Step("closeCall", 0, NoNode, 0)
    /\ UNCHANGED <<variant, subVars, eventVars, SocketIO, writeVars, session,
                   plcVars, itemsAvailable, itemsToMonitor, currentBrowsing,
                   fileVars, browseVars, addVars>>

Terminated(sub) == [sub EXCEPT !.state = "terminated"]

\* session.close() settles.  Fulfilled: the session is closed and the
\* server deletes its subscriptions; close() goes on to
\* subscription.terminate() when this.subscription is set.  Rejected:
\* close() is rejected at that await and nothing after it runs.
CloseSessionResponse(ok) ==
    /\ closing = "session"
    /\ IF ok
         THEN /\ session' = "closed"
              /\ subs' = [i \in 1..Len(subs) |-> Terminated(subs[i])]
              /\ closing' = IF subscription # 0 THEN "terminate" ELSE "returned"
              /\ emitted' = Emit(<<Ev("session_closed", "")>>, <<>>)
              /\ last' = Step("sessionClosed", 0, NoNode, 0)
         ELSE /\ UNCHANGED <<session, subs>>
              /\ closing' = "failed"
              /\ emitted' = <<>>
              /\ last' = Step("closeRejected", 0, NoNode, Threw)
    /\ UNCHANGED <<variant, subscription, starting, startCalls, eventVars,
                   SocketIO, writeVars, plcVars, itemsAvailable,
                   itemsToMonitor, currentBrowsing, fileVars, browseVars,
                   addVars>>

\* subscription.terminate() settles and close() returns.
CloseTerminateResponse(ok) ==
    /\ closing = "terminate"
    /\ IF ok
         THEN /\ subs' = [subs EXCEPT ![subscription] = Terminated(@)]
              /\ closing' = "returned"
              /\ emitted' = Emit(<<Ev("session_terminated", "")>>, <<>>)
              /\ last' = Step("terminated", 0, NoNode, 0)
         ELSE /\ subs' = subs
              /\ closing' = "failed"
              /\ emitted' = <<>>
              /\ last' = Step("closeRejected", 0, NoNode, Threw)
    /\ UNCHANGED <<variant, subscription, starting, startCalls, eventVars,
                   SocketIO, writeVars, session, plcVars, itemsAvailable,
                   itemsToMonitor, currentBrowsing, fileVars, browseVars,
                   addVars>>

\* The browse engine and the cache file of the EventEmitter variant
\* (src/unnamed/part_000), browse() calls overlapping freely: the scheduled
\* browses of the README run beside the application's own.
Next ==
    \/ Connect
    \/ Close
    \/ \E n \in ChangingNodes : PlcChange(n)
    \/ \E b \in Calls, r \in BrowseRoots, m \in BOOLEAN : Browse(b, r, m)
    \/ \E b \in Calls : BrowseResponse(b)
    \/ \E b \in Calls : ReadTypeResponse(b)
    \/ \E b \in Calls : ReadValueResponse(b)
    \/ \E k \in 1..Len(pendingWrites) : WriteFileDone(k)
    \/ getItemsFromCacheFile

\* The object constructed from either source file.
InitEmitter == Init /\ variant = "emitter"
InitLogger == Init /\ variant = "logger"

Spec == InitEmitter /\ [][Next]_vars

\* The same, every browse() awaited before the next one is called.
NextInTurn ==
    \/ Connect
    \/ Close
    \/ \E n \in ChangingNodes : PlcChange(n)
    \/ \E b \in Calls, r \in BrowseRoots, m \in BOOLEAN : BrowseInTurn(b, r, m)
    \/ \E b \in Calls : BrowseResponse(b)
    \/ \E b \in Calls : ReadTypeResponse(b)
    \/ \E b \in Calls : ReadValueResponse(b)
    \/ \E k \in 1..Len(pendingWrites) : WriteFileDone(k)
    \/ getItemsFromCacheFile

SpecInTurn == InitEmitter /\ [][NextInTurn]_vars

\* Browses in turn and cache loads, with the two steps of every
\* fs.writeFile: the file is emptied, then it holds the text.
NextCache ==
    \/ Connect
    \/ \E b \in Calls, r \in BrowseRoots, m \in BOOLEAN : BrowseInTurn(b, r, m)
    \/ \E b \in Calls : BrowseResponse(b)
    \/ \E b \in Calls : ReadTypeResponse(b)
    \/ \E b \in Calls : ReadValueResponse(b)
    \/ \E k \in 1..Len(pendingWrites) : WriteFileOpened(k)
    \/ \E k \in 1..Len(pendingWrites) : WriteFileDone(k)
    \/ getItemsFromCacheFile

SpecCache == InitEmitter /\ [][NextCache]_vars

\* Browses in turn on a session that, once created, is never closed; the
\* roots include one that lies on a reference cycle.
NextTerm ==
    \/ Connect
    \/ \E b \in Calls, r \in BrowseRoots \cup CyclicRoots, m \in BOOLEAN :
           BrowseInTurn(b, r, m)
    \/ \E b \in Calls : BrowseResponse(b)
    \/ \E b \in Calls : ReadTypeResponse(b)
    \/ \E b \in Calls : ReadValueResponse(b)
    \/ \E k \in 1..Len(pendingWrites) : WriteFileDone(k)

SpecTerm == InitEmitter /\ [][NextTerm]_vars

\* The session answers every request it has received, and every
\* continuation that has been resumed runs.
FairTerm ==
    \A b \in Calls :
        /\ WF_vars(BrowseResponse(b))
        /\ WF_vars(ReadTypeResponse(b))
        /\ WF_vars(ReadValueResponse(b))

SpecTermFair == SpecTerm /\ FairTerm

\* The logger variant (src/index.js), browses in turn; the addItemToMonitor
\* calls that the traversal leaves suspended go on beside it.
NextLogger ==
    \/ Connect
    \/ Close
    \/ \E n \in ChangingNodes : PlcChange(n)
    \/ \E a \in BagToSet(adds) : AddReadType(a)
    \/ \E a \in BagToSet(adds) : AddReadValue(a)
    \/ \E b \in Calls, r \in BrowseRoots, m \in BOOLEAN : BrowseInTurn(b, r, m)
    \/ \E b \in Calls : BrowseResponse(b)
    \/ \E b \in Calls : ReadTypeResponse(b)
    \/ \E b \in Calls : ReadValueResponse(b)
    \/ \E k \in 1..Len(pendingWrites) : WriteFileDone(k)
    \/ getItemsFromCacheFile

SpecLogger == InitLogger /\ [][NextLogger]_vars

\* The monitored-item set under addItemToMonitor calls of the user, in
\* both variants.
NextAdd ==
    \/ Connect
    \/ Close
    \/ \E n \in ChangingNodes : PlcChange(n)
    \/ \E n \in UserNodes : AddItemToMonitor(n)
    \/ \E a \in BagToSet(adds) : AddReadType(a)
    \/ \E a \in BagToSet(adds) : AddReadValue(a)

SpecAdd == Init /\ [][NextAdd]_vars

\* Monitoring in both variants: the user registers items, starts the
\* monitoring, the subscriptions deliver changes, close() ends it.
NextMonitor ==
    \/ Connect
    \/ SetSocketIO
    \/ \E n \in ChangingNodes : PlcChange(n)
    \/ \E n \in UserNodes : AddItemToMonitor(n)
    \/ \E a \in BagToSet(adds) : AddReadType(a)
    \/ \E a \in BagToSet(adds) : AddReadValue(a)
    \/ StartMonitoring
    \/ SubscriptionCreated
    \/ \E s \in 1..Len(subs), n \in Nodes, t \in Listeners \cup {NoListener} :
          Notify(s, n, t)
    \/ CloseCall
    \/ \E ok \in BOOLEAN : CloseSessionResponse(ok)
    \/ \E ok \in BOOLEAN : CloseTerminateResponse(ok)

SpecMonitor == Init /\ [][NextMonitor]_vars

\* Starting and closing alone, in both variants.
NextStart ==
    \/ Connect
    \/ \E n \in UserNodes : AddItemToMonitor(n)
    \/ \E a \in BagToSet(adds) : AddReadType(a)
    \/ \E a \in BagToSet(adds) : AddReadValue(a)
    \/ StartMonitoring
    \/ SubscriptionCreated
    \/ CloseCall
    \/ \E ok \in BOOLEAN : CloseSessionResponse(ok)
    \/ \E ok \in BOOLEAN : CloseTerminateResponse(ok)

SpecStart == Init /\ [][NextStart]_vars

\* addItemToMonitor called by an application that registers one item.
RegisterForWrite(n) ==
    /\ itemsToMonitor = <<>>
    /\ adds = EmptyBag
    /\ AddItemToMonitor(n)

\* writeData and switchBoolValue called by an application that awaits
\* each write before the next.
WriteDataInTurn(n, what) == writers = EmptyBag /\ WriteData(n, what)
SwitchBoolValueInTurn(n) == writers = EmptyBag /\ SwitchBoolValue(n)

\* Writing in both variants: the user registers items of every category
\* and writes to them.
NextWrite ==
    \/ Connect
    \/ Close
    \/ \E n \in WriteNodes : RegisterForWrite(n)
    \/ \E a \in BagToSet(adds) : AddReadType(a)
    \/ \E a \in BagToSet(adds) : AddReadValue(a)
    \/ \E n \in WriteNodes, what \in WriteInputs : WriteDataInTurn(n, what)
    \/ \E n \in WriteNodes : SwitchBoolValueInTurn(n)
    \/ \E w \in BagToSet(writers), ok \in BOOLEAN : WriteConstructed(w, ok)
    \/ \E w \in BagToSet(writers) : WriteResponse(w)

SpecWrite == Init /\ [][NextWrite]_vars

\* Toggling a monitored boolean while its subscription reports changes.
NextSwitch ==
    \/ Connect
    \/ \E n \in ChangingNodes : PlcChange(n)
    \/ \E n \in UserNodes : RegisterForWrite(n)
    \/ \E a \in BagToSet(adds) : AddReadType(a)
    \/ \E a \in BagToSet(adds) : AddReadValue(a)
    \/ StartMonitoring
    \/ SubscriptionCreated
    \/ \E s \in 1..Len(subs), n \in Nodes : Notify(s, n, NoListener)
    \/ \E n \in UserNodes : SwitchBoolValueInTurn(n)
    \/ \E w \in BagToSet(writers) : WriteResponse(w)

SpecSwitch == Init /\ [][NextSwitch]_vars

(***************************************************************************)
(* Properties.                                                             *)
(***************************************************************************)
NodeIds(items) == [i \in 1..Len(items) |-> items[i].node.id]
MonitoredIds == {itemsToMonitor[i].nodeId.id : i \in 1..Len(itemsToMonitor)}
NoDuplicate(ids) == \A i, j \in 1..Len(ids) : ids[i] = ids[j] => i = j
NoCallActive == \A b \in Calls : ~Active(b)

\* C1: when no addItemToMonitor call has started while another was still
\* running, itemsToMonitor holds at most one entry per nodeId; and a call
\* for a nodeId that is registered leaves itemsToMonitor unchanged,
\* suspends nothing and reports 'Item already monitored'.
C1_DedupInTurn ==
    [][/\ ~addOverlap' =>
            NoDuplicate([i \in 1..Len(itemsToMonitor') |->
                            itemsToMonitor'[i].nodeId.id])
       /\ (last'.op = "addItemToMonitor" /\ last'.node \in MonitoredIds) =>
            /\ itemsToMonitor' = itemsToMonitor
            /\ adds' = adds
            /\ emitted' = DuplicateReport]_vars

C1_Witness ==
    /\ last.op = "addItemToMonitor"
    /\ last.node \in MonitoredIds
    /\ emitted = DuplicateReport
    /\ ~addOverlap
    /\ addCalls >= 2

\* C2: a browse() issued while an earlier browse() has not completed is
\* rejected, so at no time are two traversals running.
C2_SecondBrowseRejected ==
    \A b, c \in Calls : Active(b) /\ Active(c) => b = c

\* C3: getItemsFromCacheFile() called while at least one browse() is
\* running returns Busy (5) and leaves itemsAvailable unchanged.
C3_LoadBusyWhileBrowsing ==
    [][(last'.op = "getItemsFromCacheFile" /\ ~NoCallActive) =>
          /\ last'.result = Busy
          /\ itemsAvailable' = itemsAvailable]_vars

\* C4: once a browse() has rejected and no other browse() is running,
\* currentBrowsing is false.
C4_FlagClearedOnFailure ==
    (last.op = "browseRejected" /\ NoCallActive) => ~currentBrowsing

\* C5: during browse(root, monitor=true) a visited node is forwarded to
\* addItemToMonitor exactly when it was not in itemsAvailable before the
\* visit, at every depth.
C5_ForwardedIffNew ==
    (last.op = "visit" /\ mon[last.call]) => (last.fwd <=> ~last.cached)

\* C6: when browse(R, monitor=true) resolves, every node it newly
\* discovered is in itemsToMonitor.
C6_MonitoredWhenResolved ==
    (last.op = "browseResolved" /\ mon[last.call]) =>
        found[last.call] \subseteq MonitoredIds

\* The nodes reachable from n through one or more forward references.
RECURSIVE Descendants(_)
Descendants(n) ==
    LET kids == Range(Refs(n))
    IN kids \cup UNION {Descendants(k) : k \in kids}

\* The order in which a depth-first walk of the references of n, taken in
\* the order the session lists them, first meets each node; seen holds the
\* nodes met so far.
RECURSIVE FirstMet(_, _, _)
FirstMet(n, i, seen) ==
    IF i > Len(Refs(n)) THEN seen
    ELSE LET k == Refs(n)[i]
             here == IF k \in Range(seen) THEN seen ELSE Append(seen, k)
         IN FirstMet(n, i + 1, FirstMet(k, 1, here))

\* A browse() call that resolved, that started with an empty cache, and
\* since whose start no other browse() ran and no cache file was loaded.
FreshBrowseDone(b) ==
    pc[b] = "done" /\ clean[b] /\ startItems[b] = <<>>

\* C7 as stated: after a successful browse(R) from an empty cache,
\* itemsAvailable holds exactly one item for rootNode and for each of its
\* descendants.
C7_RootAndDescendantsCached ==
    \A b \in Calls : FreshBrowseDone(b) =>
        /\ NoDuplicate(NodeIds(itemsAvailable))
        /\ Range(NodeIds(itemsAvailable)) = {root[b]} \cup Descendants(root[b])

\* C7 amended: after a successful browse(R) from an empty cache,
\* itemsAvailable holds exactly one item for each descendant of rootNode, in
\* the order the depth-first walk first meets them, and no other entry;
\* rootNode itself is not cached.
C7_DescendantsCached ==
    \A b \in Calls : FreshBrowseDone(b) =>
        /\ NoDuplicate(NodeIds(itemsAvailable))
        /\ Range(NodeIds(itemsAvailable)) = Descendants(root[b])
        /\ root[b] \notin Range(NodeIds(itemsAvailable))
        /\ NodeIds(itemsAvailable) = FirstMet(root[b], 1, <<>>)

C7_Witness ==
    \E b \in Calls : /\ FreshBrowseDone(b)
                     /\ root[b] = "R"
                     /\ NodeIds(itemsAvailable) = <<"A", "C", "B">>

\* C8: a visit overwrites the entry of the visited node at its index when
\* there is one and appends an entry otherwise, no other entry moves,
\* changes or goes; nothing but a visit or a cache load changes
\* itemsAvailable; and itemsAvailable never holds two entries of one nodeId.
C8_UpsertByNodeId ==
    [][/\ NoDuplicate(NodeIds(itemsAvailable'))
       /\ itemsAvailable' # itemsAvailable =>
             last'.op \in {"visit", "getItemsFromCacheFile"}
       /\ last'.op = "visit" =>
            LET n == last'.node
                old == NodeIds(itemsAvailable)
                len == Len(itemsAvailable)
            IN /\ \A i \in 1..len :
                     /\ i \in DOMAIN itemsAvailable'
                     /\ itemsAvailable'[i].node.id = old[i]
                     /\ old[i] # n => itemsAvailable'[i] = itemsAvailable[i]
                     /\ old[i] = n => itemsAvailable'[i].value = plcValue[n]
               /\ IF n \in Range(old)
                    THEN Len(itemsAvailable') = len
                    ELSE /\ Len(itemsAvailable') = len + 1
                         /\ itemsAvailable'[len + 1].node.id = n
                         /\ itemsAvailable'[len + 1].value = plcValue[n]]_vars

C8_Witness ==
    /\ last.op = "visit"
    /\ last.cached
    /\ Len(itemsAvailable) >= 2
    /\ itemsAvailable[1].node.id = last.node

\* C9: a browse() of the root that the browse completed just before had,
\* with no value changed in the controller since that one started, leaves
\* itemsAvailable as it found it: same length, same order, same fields.
C9_RebrowseIdempotent ==
    \A b \in Calls :
        (pc[b] = "done" /\ rebrowse[b] /\ clean[b] /\ stable[b]) =>
            itemsAvailable = startItems[b]

C9_Witness ==
    \E b \in Calls : /\ pc[b] = "done" /\ rebrowse[b] /\ clean[b] /\ stable[b]
                     /\ root[b] = "R"
                     /\ Len(itemsAvailable) = 3

\* C10: fs.writeFile is called exactly in the step in which a browse()
\* resolves, once, with the whole cache; no visit and no rejected browse()
\* calls it or changes the file; so the number of writes is the number of
\* browse() calls that resolved.
C10_WriteOnlyOnCompletion ==
    [][/\ writeCount' # writeCount =>
            /\ last'.op = "browseResolved"
            /\ writeCount' = writeCount + 1
            /\ pendingWrites' =
                   Append(pendingWrites, JsonStringify(itemsAvailable))
       /\ last'.op = "browseResolved" => writeCount' = writeCount + 1
       /\ last'.op \in {"visit", "browseRejected", "browseReturn"} =>
            /\ writeCount' = writeCount
            /\ pendingWrites' = pendingWrites
            /\ file' = file
       /\ writeCount' = Cardinality({b \in Calls : pc'[b] = "done"})]_vars

C10_Witness ==
    /\ \E b \in Calls : pc[b] = "done"
    /\ \E b \in Calls : pc[b] = "failed" /\ found[b] # {}
    /\ last.op = "browseRejected"
    /\ writeCount = 1

\* Two item collections equal by nodeId and value, entry by entry.
SameByNodeIdAndValue(xs, ys) ==
    /\ Len(xs) = Len(ys)
    /\ \A i \in 1..Len(xs) : /\ xs[i].node.id = ys[i].node.id
                             /\ xs[i].value = ys[i].value

\* C11: a getItemsFromCacheFile() made after a browse() has resolved, with
\* no other browse and no other load since, returns the items (not 5 or 6)
\* and leaves in itemsAvailable a collection equal by nodeId and value to
\* the one that browse persisted, which is the one held before the call.
C11_SaveLoadRoundTrip ==
    [][(/\ last'.op = "getItemsFromCacheFile"
        /\ \E b \in Calls : pc[b] = "done" /\ clean[b]) =>
          /\ last'.result = 0
          /\ SameByNodeIdAndValue(itemsAvailable', itemsAvailable)]_vars

\* A step that is a call of startMonitoringDataChanges().
StartCalled == startCalls' = startCalls + 1

\* The last step reported that there is nothing to monitor.
ReportsNothingToMonitor(evs) ==
    \E i \in 1..Len(evs) :
        evs[i] \in {Ev("error", "No item to monitor !"),
                    Ev("info", "No items to monitor")}

\* C12: startMonitoringDataChanges() called while itemsToMonitor is empty
\* reports that there is nothing to monitor, sends no createSubscription2
\* request, creates no subscription (so monitorItems is not called) and
\* leaves this.subscription as it was.
C12_EmptyStartFailsFast ==
    [][(StartCalled /\ Len(itemsToMonitor) = 0) =>
          /\ ReportsNothingToMonitor(emitted')
          /\ starting' = starting
          /\ subs' = subs
          /\ subscription' = subscription]_vars

\* A start was made on an open session with nothing registered.
C12_Witness ==
    /\ last.op = "startMonitoringDataChanges"
    /\ session = "open"
    /\ Len(itemsToMonitor) = 0
    /\ ReportsNothingToMonitor(emitted)

\* C13: in every reachable state at most one subscription is live (created
\* and not terminated): a start made while one is live creates no second.
C13_AtMostOneLiveSubscription == Cardinality(LiveSubscriptions) <= 1

\* close() has ended (returned or rejected) and no start was made since.
CloseEnded == closing \in {"returned", "failed"}

\* C14: when close() ends while this.subscription is set, that subscription
\* is terminated, also when closing the session failed; and from then on no
\* itemChanged event is emitted until startMonitoringDataChanges is called.
C14_CloseTerminatesSubscription ==
    [][/\ (~CloseEnded /\ CloseEnded' /\ subscription # 0) =>
              subs'[subscription].state = "terminated"
       /\ CloseEnded => events' = events]_vars

\* C15: every change notification delivered for a monitored node has
\* produced exactly one itemChanged event carrying its nodeId and value,
\* and the events are in the order of delivery.
C15_OneEventPerNotification ==
    /\ Len(events) = Len(notified)
    /\ \A i \in 1..Len(events) : /\ events[i].nodeId.id = notified[i].node
                                 /\ events[i].value = notified[i].value

\* C16: every itemChanged event emitted has been handed to every listener,
\* whatever another listener did with it.
C16_FanoutIndependent == \A l \in Listeners : received[l] = events

\* The entry of itemsToMonitor for node n before the step (0: none).
ItemIndex(n) == MonitoredItemIndex(NodeIdString(n))

\* The step sent nothing to session.write and left no call behind that
\* will.
NoSessionWrite == sessionWrites' = sessionWrites /\ writers' = writers

\* C17: writeData for a node that is not in itemsToMonitor returns without
\* raising, hands nothing to session.write and changes no state, in both
\* variants.
C17_WriteUnknownNodeIsNoOp ==
    [][(last'.op = "writeData" /\ ItemIndex(last'.node) = 0) =>
          /\ last'.result = Resolved
          /\ NoSessionWrite
          /\ itemsToMonitor' = itemsToMonitor
          /\ plcValue' = plcValue]_vars

\* The coercion table of the specification for boolean and numeric items.
TableCoercion(item, what) ==
    CASE item.value.type = "boolean" -> [dataType |-> "Boolean", value |-> what]
      [] item.dataTypeId = 10 ->
            [dataType |-> "Float", value |-> ParseFloat(what)]
      [] item.dataTypeId = 4 -> [dataType |-> "Int16", value |-> ParseInt(what)]
      [] item.dataTypeId = 6 -> [dataType |-> "Int32", value |-> ParseInt(what)]
      [] item.dataTypeId = 8 -> [dataType |-> "Int64", value |-> ParseInt(what)]

InTable(item) ==
    \/ item.value.type = "boolean"
    \/ item.value.type = "number" /\ item.dataTypeId \in {4, 6, 8, 10}

\* The step handed exactly one request to session.write: the one the table
\* gives for the item and some value `what`, which the call now awaits.
WroteByTable(n, item) ==
    \E what \in WriteInputs :
        LET c == TableCoercion(item, what)
        IN /\ sessionWrites' =
                 Append(sessionWrites, [nodeId |-> item.nodeId,
                                        dataType |-> c.dataType,
                                        value |-> c.value])
           /\ writers' = writers (+) SetToBag({[who |-> n, what |-> what,
                                                pc |-> "write",
                                                dataType |-> c.dataType,
                                                value |-> c.value]})

\* C18: writeData on a monitored boolean item sends the given value
\* unchanged as Boolean; on a monitored numeric item of type code 10, 4, 6
\* or 8 it sends Float, Int16, Int32 or Int64 with the value parsed as a
\* float for code 10 and as an integer otherwise; each such call hands
\* exactly one request to session.write.
C18_WireTypeByTable ==
    [][\A n \in WriteNodes :
          (/\ last'.op = "writeData"
           /\ last'.node = n
           /\ ItemIndex(n) # 0
           /\ InTable(itemsToMonitor[ItemIndex(n)])) =>
              WroteByTable(n, itemsToMonitor[ItemIndex(n)])]_vars

\* writeData("F", "1e2") has sent Float 100, where parseInt gives 1.
C18_Witness ==
    /\ last.op = "writeData"
    /\ last.node = "F"
    /\ Len(sessionWrites) > 0
    /\ sessionWrites[Len(sessionWrites)] =
          [nodeId |-> NodeIdString("F"), dataType |-> "Float",
           value |-> Num(100)]

\* The registered value has no coercion rule.
NoRule(item) ==
    \/ item.value.type \in {"array", "string", "null"}
    \/ item.value.type = "number" /\ item.dataTypeId \notin {4, 6, 8, 10}

\* C19: writeData on a monitored item whose registered value is an array,
\* a string, null, or a number of a type code other than 4, 6, 8 and 10
\* fails with the unknown-type error and hands nothing to session.write.
C19_UnsupportedTypeNotWritten ==
    [][(/\ last'.op = "writeData"
        /\ ItemIndex(last'.node) # 0
        /\ NoRule(itemsToMonitor[ItemIndex(last'.node)])) =>
          /\ last'.result = ReturnedFalse
          /\ NoSessionWrite]_vars

\* C20: switchBoolValue on a node that is not in itemsToMonitor, or whose
\* registered value is not a boolean, raises nothing and hands nothing to
\* session.write.
C20_SwitchIgnoresNonBoolean ==
    [][(/\ last'.op = "switchBoolValue"
        /\ \/ ItemIndex(last'.node) = 0
           \/ itemsToMonitor[ItemIndex(last'.node)].value.type # "boolean") =>
          /\ last'.result # Threw
          /\ NoSessionWrite]_vars

\* The notifications received for node n, and the value of the latest.
NotifiedFor(n) == {k \in 1..Len(notified) : notified[k].node = n}
LastNotified(n) ==
    notified[CHOOSE k \in NotifiedFor(n) : \A j \in NotifiedFor(n) : j <= k].value

\* C21: switchBoolValue on a monitored boolean for which a change
\* notification was received hands one request to session.write, of wire
\* type Boolean, whose value is the negation of the value of the most
\* recent notification for that node.
C21_SwitchNegatesLastNotified ==
    [][\A n \in Nodes :
          (/\ last'.op = "switchBoolValue"
           /\ last'.node = n
           /\ ItemIndex(n) # 0
           /\ itemsToMonitor[ItemIndex(n)].value.type = "boolean"
           /\ NotifiedFor(n) # {}) =>
              sessionWrites' =
                 Append(sessionWrites,
                        [nodeId |-> itemsToMonitor[ItemIndex(n)].nodeId,
                         dataType |-> "Boolean",
                         value |-> Not(LastNotified(n))])]_vars

\* C22: the value field of an entry of itemsToMonitor is a snapshot taken
\* at registration: no step changes the value of an entry that exists.
C22_ValueIsSnapshot ==
    [][\A i \in 1..Len(itemsToMonitor) :
          /\ i <= Len(itemsToMonitor')
          /\ itemsToMonitor'[i].nodeId = itemsToMonitor[i].nodeId
          /\ itemsToMonitor'[i].value = itemsToMonitor[i].value]_vars

\* The step reported an error through the event surface.
ErrorReported(evs) == \E i \in 1..Len(evs) : evs[i][1] = "error"

\* The step ended the suspended writeData call w on a failure of the
\* session: session.write answered without an open session, or
\* constructExtensionObject did not produce the typed record.
WriteFailed(w) ==
    /\ writers' = writers (-) SetToBag({w})
    /\ session # "open" \/ w.pc = "construct"

\* The step ended the suspended addItemToMonitor call a on a read that
\* failed.
AddFailed(a) == adds' = adds (-) SetToBag({a}) /\ session # "open"

\* C23: a failure of the session during writeData or addItemToMonitor is
\* caught by the call: the call does not raise, it reports the failure as
\* an error event, and itemsToMonitor gets no partial entry.
C23_FailuresCaughtLocally ==
    [][/\ \A w \in BagToSet(writers) :
              WriteFailed(w) =>
                  /\ last'.result # Threw
                  /\ ErrorReported(emitted')
       /\ \A a \in BagToSet(adds) :
              AddFailed(a) =>
                  /\ last'.result # Threw
                  /\ ErrorReported(emitted')
                  /\ itemsToMonitor' = itemsToMonitor]_vars

\* C27: when session.write is fulfilled for a writeData call on an item
\* of a supported type, the call returns the status code of that write and
\* afterWrite is emitted with the same status code, in both variants.
C27_WriteReturnsStatusCode ==
    [][\A w \in BagToSet(writers) :
          (/\ last'.op = "writeFulfilled"
           /\ writers' = writers (-) SetToBag({w})
           /\ w.dataType # "Null") =>
              /\ last'.result = ReturnedStatus
              /\ \E i \in 1..Len(emitted') :
                    emitted'[i] = Ev("afterWrite", StatusCode(w))]_vars

\* Nothing is open: there never was a session or a subscription, or the
\* session is closed and this.subscription, if set, is terminated.
NothingOpen ==
    \/ session = "null" /\ subscription = 0
    \/ /\ session = "closed"
       /\ subscription # 0 => subs[subscription].state = "terminated"

\* C26: close() called while nothing is open returns at once: it sends
\* neither session.close() nor subscription.terminate() and does not raise.
C26_CloseSafeWhenNothingOpen ==
    [][(last'.op = "closeCall" /\ NothingOpen) =>
          /\ closing' = "returned"
          /\ last'.result # Threw]_vars

\* C29: itemsToMonitor holds at most one entry per nodeId in every
\* reachable state, also when addItemToMonitor calls for one nodeId
\* overlap.
C29_DedupUnderOverlap ==
    \A i, j \in 1..Len(itemsToMonitor) :
        itemsToMonitor[i].nodeId.id = itemsToMonitor[j].nodeId.id => i = j

\* The step has emitted afterBrowsing.
AfterBrowsingEmitted ==
    \E i \in 1..Len(emitted) : emitted[i][1] = "afterBrowsing"

\* C24: a request of a traversal that is answered while the session cannot
\* answer makes that browse() call fail at once: the call ends as failed, no
\* afterBrowsing is emitted, the cache is not written and no item is
\* recorded for the reference.  A call whose requests are answered by an
\* open session never fails, whatever became of the calls before it, and
\* when it ends it emits afterBrowsing for its root and clears
\* currentBrowsing.
C24_BrowseFailurePropagates ==
    [][\A b \in Calls :
          (Active(b) /\ pc'[b] # pc[b]) =>
              IF session # "open"
                THEN /\ pc'[b] = "failed"
                     /\ ~AfterBrowsingEmitted'
                     /\ itemsAvailable' = itemsAvailable
                     /\ writeCount' = writeCount
                ELSE /\ pc'[b] # "failed"
                     /\ pc'[b] = "done" =>
                            /\ emitted' = <<Ev("afterBrowsing", root[b])>>
                            /\ writeCount' = writeCount + 1
                            /\ ~currentBrowsing']_vars

\* A browse() call has failed and a later call on root A has just completed.
C24_Witness ==
    \E c, d \in Calls :
        /\ c < d
        /\ pc[c] = "failed"
        /\ pc[d] = "done"
        /\ root[d] = "A"
        /\ last.op = "browseResolved"
        /\ last.call = d
        /\ AfterBrowsingEmitted


\* The step has emitted an error event.
CacheErrorReported ==
    \E i \in 1..Len(emitted) : emitted[i][1] = "error"

\* C25: getItemsFromCacheFile() called while no browse is active returns
\* NotFound and leaves itemsAvailable as it is when the file is absent,
\* reports an error and leaves itemsAvailable empty when the file does not
\* parse, and otherwise makes itemsAvailable the items of the file.
C25_CacheLoad ==
    [][(last'.op = "getItemsFromCacheFile" /\ ~currentBrowsing) =>
          IF file.kind = "absent"
            THEN /\ last'.result = NotFound
                 /\ itemsAvailable' = itemsAvailable
          ELSE IF file.kind = "malformed"
            THEN /\ CacheErrorReported'
                 /\ itemsAvailable' = <<>>
          ELSE itemsAvailable' = JsonParse(file)]_vars

\* The browse() call b has just completed: its traversal is over, the cache
\* has been handed to fs.writeFile and currentBrowsing is false.
Completed(b) ==
    /\ pc[b] = "done"
    /\ last.op = "browseResolved"
    /\ last.call = b
    /\ pendingWrites # <<>>
    /\ ~currentBrowsing

\* C28: a browse() call on a root of the finite DAG whose requests are all
\* answered eventually completes, with the cache written and
\* currentBrowsing false; a browse() call on a root that lies on a
\* reference cycle never completes.
C28_BrowseTerminates ==
    /\ \A b \in Calls :
           (Active(b) /\ root[b] \in BrowseRoots /\ session = "open")
               ~> Completed(b)
    /\ [](\A b \in Calls : root[b] \in CyclicRoots => pc[b] \notin {"done"})

\* A browse() of R has completed and a later browse() of K has gone round
\* the cycle as far as the model follows it.
C28_Witness ==
    \E b, c \in Calls :
        /\ b < c
        /\ pc[b] = "done"
        /\ Active(c)
        /\ root[c] \in CyclicRoots
        /\ Len(stack[c]) = MaxDepth
        /\ stack[c][1].node = stack[c][3].node
        /\ session = "open"

====
